---- MODULE Spec2Model ----
(***************************************************************************)
(* A model of server.py: the Unity WebGL static file server.               *)
(*                                                                         *)
(* UnityWebGLHandler subclasses http.server.SimpleHTTPRequestHandler and   *)
(* main() runs it under socketserver.TCPServer.  The overridden methods    *)
(* (end_headers, guess_type, do_GET, send_head) are modelled from          *)
(* server.py; the inherited methods they call (translate_path, send_error, *)
(* the inherited send_head, do_HEAD, the method dispatch and the serve     *)
(* loop) are modelled at the place server.py calls or inherits them.       *)
(*                                                                         *)
(* Representation.  A file name is the sequence of its parts between dots: *)
(* "x.js.gz" is <<"x","js","gz">>, ".." is <<"","","">> and "." is         *)
(* <<"","">>.  A path is a sequence of such names plus a trailing-slash    *)
(* flag.  File contents are sequences of one-character strings.  The       *)
(* Server and Date headers of send_response and the Last-Modified header   *)
(* are left out; conditional requests (If-Modified-Since) and HTTP/0.9     *)
(* request lines are not modelled.                                         *)
(***************************************************************************)
EXTENDS Integers, Sequences, FiniteSets, TLC

VARIABLES
    server,       \* "init" | "serving" | "stopped": where main() is
    exit_reason,  \* why the process ended ("" while it runs)
    DIRECTORY,    \* the global DIRECTORY (a path: a sequence of names)
    fs,           \* the host file system: path -> node
    backlog,      \* connections waiting in the listen queue (FIFO)
    cur,          \* the connection whose handler is running ("none" if none)
    sent,         \* the running handler's client has written its request
    phase,        \* phase[c]: "idle" | "queued" | "accepted"
    last,         \* the last request handled and what the client received
    failed,       \* some earlier request ended in an exception
    gpath,        \* input of the guess_type harness (a file name)
    gtype         \* its result ("pending" before the call)

vars == <<server, exit_reason, DIRECTORY, fs, backlog, cur, sent, phase,
          last, failed, gpath, gtype>>

---------------------------------------------------------------------------
(* Bounds of the model *)

\* clients that may be connected at the same time
NumClients == 2

\* longest file name, in dot-separated parts, the guess_type harness draws
MaxParts == 4

Clients == 1..NumClients

---------------------------------------------------------------------------
(* Strings and paths *)

Last(s) == s[Len(s)]

\* str.lower() on one part of a name
lower_part(p) ==
    CASE p = "X" -> "x"
      [] p = "JS" -> "js"
      [] p = "GZ" -> "gz"
      [] p = "BR" -> "br"
      [] OTHER -> p

\* str.lower() on a path
lower(path) ==
    [segs |-> [i \in DOMAIN path.segs |->
                 [j \in DOMAIN path.segs[i] |-> lower_part(path.segs[i][j])]],
     slash |-> path.slash]

\* path.endswith(ext), ext a dotted suffix given by its parts: ".js.gz" is
\* <<"js","gz">>.  The dot that starts ext needs a part before it.
endswith(path, ext) ==
    /\ ~path.slash
    /\ path.segs # <<>>
    /\ LET name == Last(path.segs)
           n == Len(name)
           k == Len(ext)
       IN /\ n > k
          /\ SubSeq(name, n - k + 1, n) = ext

DotDot == <<"", "", "">>
Dot == <<"", "">>

---------------------------------------------------------------------------
(* guess_type *)

\* the unity_types dict, in its insertion (= iteration) order
unity_types ==
    << << <<"unityweb">>,                "application/octet-stream" >>,
       << <<"wasm">>,                    "application/wasm" >>,
       << <<"wasm", "gz">>,              "application/wasm" >>,
       << <<"wasm", "br">>,              "application/wasm" >>,
       << <<"js", "gz">>,                "application/javascript" >>,
       << <<"js", "br">>,                "application/javascript" >>,
       << <<"data">>,                    "application/octet-stream" >>,
       << <<"data", "gz">>,              "application/octet-stream" >>,
       << <<"data", "br">>,              "application/octet-stream" >>,
       << <<"symbols", "json">>,         "application/json" >>,
       << <<"symbols", "json", "gz">>,   "application/json" >>,
       << <<"symbols", "json", "br">>,   "application/json" >>
    >>

\* mimetypes' table, for the extensions the model uses
types_map(ext) ==
    CASE ext = "html" -> "text/html"
      [] ext = "js" -> "text/javascript"
      [] ext = "json" -> "application/json"
      [] ext = "txt" -> "text/plain"
      [] ext = "wasm" -> "application/wasm"
      [] OTHER -> ""

\* SimpleHTTPRequestHandler.guess_type: extensions_map on the last
\* extension (as written, then lowered) knows ".gz"; then
\* mimetypes.guess_type, which strips an encoding suffix (".br") and looks
\* the extension before it up, as written, then lowered; if nothing is
\* found, application/octet-stream.
super_guess_type(path) ==
    LET name == IF path.segs = <<>> \/ path.slash THEN <<"">> ELSE Last(path.segs)
        n == Len(name)
        ext == IF n >= 2 THEN name[n] ELSE ""
        inner == IF n >= 3 THEN name[n - 1] ELSE ""
        guess == IF ext = "br"
                 THEN types_map(lower_part(inner))
                 ELSE types_map(lower_part(ext))
    IN IF lower_part(ext) = "gz" THEN "application/gzip"
       ELSE IF guess # "" THEN guess
       ELSE "application/octet-stream"

\* a variant that looks only the last extension up in a one-extension table
\* (".wasm", ".data", ".unityweb") and never sees a compound suffix
guess_type_last_ext(path) ==
    LET name == IF path.segs = <<>> \/ path.slash THEN <<"">> ELSE Last(path.segs)
        ext == IF Len(name) >= 2 THEN lower_part(Last(name)) ELSE ""
    IN CASE ext = "wasm" -> "application/wasm"
         [] ext \in {"data", "unityweb"} -> "application/octet-stream"
         [] OTHER -> super_guess_type(path)

\* UnityWebGLHandler.guess_type: the first entry, in dict order, that the
\* lowered path ends with; else the inherited guess
guess_type(path) ==
    LET path_lower == lower(path)
        hits == {i \in DOMAIN unity_types : endswith(path_lower, unity_types[i][1])}
    IN IF hits # {}
       THEN unity_types[CHOOSE i \in hits : \A j \in hits : i <= j][2]
       ELSE super_guess_type(path)

---------------------------------------------------------------------------
(* The file system, as os.path and open() see it *)

Absent == [kind |-> "absent", readable |-> FALSE, data |-> <<>>, size |-> 0]

File(data, readable) ==
    [kind |-> "file", readable |-> readable, data |-> data, size |-> Len(data)]

\* a directory; st_size of a directory is the file system's business
Dir == [kind |-> "dir", readable |-> TRUE, data |-> <<>>, size |-> 4096]

stat(path) == IF path.segs \in DOMAIN fs THEN fs[path.segs] ELSE Absent

\* os.path.exists, os.path.isdir, os.path.isfile (a trailing slash makes
\* the kernel demand a directory)
exists(path) ==
    /\ stat(path).kind # "absent"
    /\ path.slash => stat(path).kind = "dir"

isdir(path) == stat(path).kind = "dir"

isfile(path) == stat(path).kind = "file" /\ ~path.slash

\* os.path.getsize
getsize(path) == stat(path).size

\* whether open(path, 'rb') returns a file object rather than raising OSError
can_open(path) == isfile(path) /\ stat(path).readable

---------------------------------------------------------------------------
(* translate_path *)

RECURSIVE norm_from(_, _)
\* posixpath.normpath on the names of an absolute path, from the names
\* kept so far: "" and "." are skipped, ".." drops the name before it and
\* is itself dropped at the top
norm_from(segs, acc) ==
    IF segs = <<>> THEN acc
    ELSE LET h == Head(segs)
         IN IF h = Dot \/ h = <<"">>
            THEN norm_from(Tail(segs), acc)
            ELSE IF h = DotDot
            THEN norm_from(Tail(segs),
                           IF acc = <<>> THEN <<>> ELSE SubSeq(acc, 1, Len(acc) - 1))
            ELSE norm_from(Tail(segs), Append(acc, h))

\* a variant that joins the request path to the directory and lets ".."
\* climb out of it
translate_path_join(url) ==
    [segs |-> norm_from(url.segs, DIRECTORY), slash |-> url.slash]

\* SimpleHTTPRequestHandler.translate_path with directory=DIRECTORY:
\* normpath, then every "." and ".." left is dropped, and what remains is
\* joined to the directory; a trailing slash of the request is kept
translate_path(url) ==
    LET words == SelectSeq(norm_from(url.segs, <<>>),
                           LAMBDA w : w # Dot /\ w # DotDot)
    IN [segs |-> DIRECTORY \o words, slash |-> url.slash]

---------------------------------------------------------------------------
(* Headers and error responses *)

send_header(headers, keyword, value) == Append(headers, <<keyword, value>>)

\* a variant that forgets the Cross-Origin-Embedder-Policy header
end_headers_no_coep(headers) ==
    headers \o << <<"Access-Control-Allow-Origin", "*">>,
                  <<"Access-Control-Allow-Methods", "GET, OPTIONS">>,
                  <<"Access-Control-Allow-Headers", "Content-Type">>,
                  <<"Cross-Origin-Opener-Policy", "same-origin">> >>

\* UnityWebGLHandler.end_headers: the five headers, then the inherited
\* end_headers, which flushes the buffer to the socket
end_headers(headers) ==
    headers \o << <<"Access-Control-Allow-Origin", "*">>,
                  <<"Access-Control-Allow-Methods", "GET, OPTIONS">>,
                  <<"Access-Control-Allow-Headers", "Content-Type">>,
                  <<"Cross-Origin-Opener-Policy", "same-origin">>,
                  <<"Cross-Origin-Embedder-Policy", "require-corp">> >>

\* the HTML page send_error writes
error_page == <<"<error>">>

\* the HTML page list_directory writes
listing_page == <<"<listing>">>

\* What a call of send_head leaves behind: the status line and headers on
\* the wire, the body already written (by send_error), the file object it
\* returns (<<>> for None, else <<contents>>), the paths it opened and the
\* paths it looked at, and whether it raised.
Head_(status, headers, body, f, opened, touched, raised) ==
    [status |-> status, headers |-> headers, body |-> body, f |-> f,
     opened |-> opened, touched |-> touched, raised |-> raised]

\* BaseHTTPRequestHandler.send_error, reached through the inherited methods:
\* status line, Connection: close, the error page's type and length,
\* end_headers, and the page itself unless the request is a HEAD
send_error(code, command, touched) ==
    Head_(code,
          end_headers(<< <<"Connection", "close">>,
                         <<"Content-Type", "text/html;charset=utf-8">>,
                         <<"Content-Length", Len(error_page)>> >>),
          IF command # "HEAD" THEN error_page ELSE <<>>,
          <<>>, {}, touched, FALSE)

---------------------------------------------------------------------------
(* send_head *)

\* SimpleHTTPRequestHandler.list_directory (the directory is readable)
list_directory(path, touched) ==
    Head_(200,
          end_headers(<< <<"Content-type", "text/html; charset=utf-8">>,
                         <<"Content-Length", Len(listing_page)>> >>),
          <<>>, <<listing_page>>, {}, touched, FALSE)

\* The inherited SimpleHTTPRequestHandler.send_head, which line 92 calls.
\* A directory asked for without its slash is redirected; with it, its
\* index.html or index.htm is served, or its listing.  A path that ends
\* in a slash, or that open() refuses, is a 404.
super_send_head(url, command) ==
    LET path == translate_path(url)
        html == [segs |-> Append(path.segs, <<"index", "html">>), slash |-> FALSE]
        htm == [segs |-> Append(path.segs, <<"index", "htm">>), slash |-> FALSE]
        seen == {path.segs}
        probed == IF isfile(html) THEN seen \cup {html.segs}
                  ELSE seen \cup {html.segs, htm.segs}
        serve(p, touched) ==
            IF p.slash \/ ~can_open(p)
            THEN send_error(404, command, touched)
            ELSE Head_(200,
                       end_headers(<< <<"Content-type", guess_type(p)>>,
                                      <<"Content-Length", getsize(p)>> >>),
                       <<>>, <<stat(p).data>>, {p.segs}, touched, FALSE)
    IN IF isdir(path)
       THEN IF ~url.slash
            THEN Head_(301,
                       end_headers(<< <<"Location", "url/">>,
                                      <<"Content-Length", 0>> >>),
                       <<>>, <<>>, {}, seen, FALSE)
            ELSE IF isfile(html) THEN serve(html, probed)
            ELSE IF isfile(htm) THEN serve(htm, probed)
            ELSE list_directory(path, probed)
       ELSE serve(path, seen)

\* a variant of the compressed branch that announces no Content-Length
compressed_head_no_length(path, encoding, command) ==
    Head_(200,
          end_headers(<< <<"Content-Encoding", encoding>>,
                         <<"Content-Type", guess_type(path)>> >>),
          <<>>,
          IF can_open(path) THEN <<stat(path).data>> ELSE <<>>,
          IF can_open(path) THEN {path.segs} ELSE {},
          {path.segs},
          ~can_open(path))

\* The body of either compressed branch of send_head (lines 76-82 and
\* 84-90): status 200, Content-Encoding, Content-Type, Content-Length and
\* end_headers go out first; then open(path, 'rb') returns the file or
\* raises.
compressed_head(path, encoding, command) ==
    Head_(200,
          end_headers(<< <<"Content-Encoding", encoding>>,
                         <<"Content-Type", guess_type(path)>>,
                         <<"Content-Length", getsize(path)>> >>),
          <<>>,
          IF can_open(path) THEN <<stat(path).data>> ELSE <<>>,
          IF can_open(path) THEN {path.segs} ELSE {},
          {path.segs},
          ~can_open(path))

\* UnityWebGLHandler.send_head
send_head(url, command) ==
    LET path == translate_path(url)
    IN IF exists(path) /\ endswith(path, <<"gz">>)
       THEN compressed_head(path, "gzip", command)
       ELSE IF exists(path) /\ endswith(path, <<"br">>)
       THEN compressed_head(path, "br", command)
       ELSE super_send_head(url, command)

---------------------------------------------------------------------------
(* The request methods *)

\* What the client has received when the handler is done, and what the
\* handler did to get there (aborted: the copy to the socket raised
\* because the client had gone).
Outcome(h, body, raised, attr, aborted) ==
    [status |-> h.status, headers |-> h.headers, body |-> body,
     opened |-> h.opened, touched |-> h.touched, raised |-> raised,
     send_header_on_compressed |-> attr, aborted |-> aborted]

\* UnityWebGLHandler.do_GET: the attribute send_header_on_compressed is
\* set from the path's suffix (nothing reads it), then the inherited do_GET
\* calls send_head and copies the file it returns to the socket.  A client
\* that has gone away (abort) makes the copy raise.
do_GET(url, abort) ==
    LET path == translate_path(url)
        attr == IF endswith(path, <<"gz">>) THEN "gzip"
                ELSE IF endswith(path, <<"br">>) THEN "br"
                ELSE "None"
        copy(h) == IF h.raised THEN Outcome(h, h.body, TRUE, attr, FALSE)
                   ELSE IF h.f = <<>> THEN Outcome(h, h.body, FALSE, attr, FALSE)
                   ELSE IF abort THEN Outcome(h, <<>>, TRUE, attr, TRUE)
                   ELSE Outcome(h, h.f[1], FALSE, attr, FALSE)
    IN copy(send_head(url, "GET"))

\* the inherited do_HEAD: send_head, and the file it returns is closed
do_HEAD(url) ==
    LET close(h) == Outcome(h, h.body, h.raised, "unset", FALSE)
    IN close(send_head(url, "HEAD"))

\* a variant of the dispatch that answers a method it has no do_ method
\* for with 405
handle_one_request_405(command, url, abort) ==
    IF command = "GET" THEN do_GET(url, abort)
    ELSE IF command = "HEAD" THEN do_HEAD(url)
    ELSE LET done(h) == Outcome(h, h.body, FALSE, "unset", FALSE)
         IN done(send_error(405, command, {}))

\* The inherited handle_one_request: the method named do_<command> runs;
\* the class defines do_GET and inherits do_HEAD, and a command without a
\* method is answered by send_error(501)
handle_one_request(command, url, abort) ==
    IF command = "GET" THEN do_GET(url, abort)
    ELSE IF command = "HEAD" THEN do_HEAD(url)
    ELSE LET done(h) == Outcome(h, h.body, FALSE, "unset", FALSE)
         IN done(send_error(501, command, {}))

---------------------------------------------------------------------------
(* The files and the requests the model draws from *)

Build == <<"Build">>
index_html == <<"index", "html">>
x_js_gz == <<"x", "js", "gz">>
X_JS_GZ == <<"X", "JS", "GZ">>
x_symbols_json_br == <<"x", "symbols", "json", "br">>
x_wasm == <<"x", "wasm">>
u_data_gz == <<"u", "data", "gz">>
y_br == <<"y", "br">>
d_gz == <<"d", "gz">>
priv_txt == <<"priv", "txt">>
missing_txt == <<"missing", "txt">>
missing_gz == <<"missing", "gz">>
sub == <<"sub">>
etc == <<"etc">>
passwd == <<"passwd">>
secret_txt == <<"secret", "txt">>

\* every path of the host a configuration or a request names: the
\* directory's tree, and /etc/passwd and secret.txt beside it
FsPaths ==
    { <<Build>>, <<Build, index_html>>, <<Build, x_js_gz>>, <<Build, X_JS_GZ>>,
      <<Build, x_symbols_json_br>>, <<Build, x_wasm>>, <<Build, u_data_gz>>,
      <<Build, y_br>>, <<Build, d_gz>>, <<Build, priv_txt>>, <<Build, sub>>,
      <<Build, etc>>, <<Build, etc, passwd>>,
      <<etc>>, <<etc, passwd>>, <<secret_txt>> }

\* what lies outside the directory
Outside(p) ==
    CASE p = <<etc>> -> Dir
      [] p = <<etc, passwd>> -> File(<<"r", "o", "o", "t">>, TRUE)
      [] p = <<secret_txt>> -> File(<<"k", "e", "y">>, TRUE)
      [] OTHER -> Absent

\* a host whose directory does not exist yet
EmptyHost == [p \in FsPaths |-> Outside(p)]

\* a host whose directory holds a build: readable files of every kind of
\* name, two compressed files nobody may read (u.data.gz, y.br), a
\* directory named d.gz, an unreadable priv.txt, a directory sub without an
\* index, and a file etc/passwd of its own
BuiltHost ==
    [p \in FsPaths |->
       CASE p = <<Build>> -> Dir
         [] p = <<Build, index_html>> -> File(<<"h", "i">>, TRUE)
         [] p = <<Build, x_js_gz>> -> File(<<"g", "z", "!">>, TRUE)
         [] p = <<Build, X_JS_GZ>> -> File(<<"J", "S", "G", "Z", "!">>, TRUE)
         [] p = <<Build, x_symbols_json_br>> -> File(<<"s">>, TRUE)
         [] p = <<Build, x_wasm>> -> File(<<"w", "a", "s", "m">>, TRUE)
         [] p = <<Build, u_data_gz>> -> File(<<"u", "n">>, FALSE)
         [] p = <<Build, y_br>> -> File(<<"b", "r", "o", "t", "l", "i">>, FALSE)
         [] p = <<Build, d_gz>> -> Dir
         [] p = <<Build, priv_txt>> -> File(<<"p", "r", "i", "v", "a", "t", "e", "!">>, FALSE)
         [] p = <<Build, sub>> -> Dir
         [] p = <<Build, etc>> -> Dir
         [] p = <<Build, etc, passwd>> -> File(<<"i", "n", "s", "i", "d", "e", "!">>, TRUE)
         [] OTHER -> Outside(p)]

Hosts == {EmptyHost, BuiltHost}

Url(segs, slash) == [segs |-> segs, slash |-> slash]

Urls ==
    { Url(<<>>, TRUE),
      Url(<<index_html>>, FALSE),
      Url(<<x_js_gz>>, FALSE),
      Url(<<X_JS_GZ>>, FALSE),
      Url(<<x_symbols_json_br>>, FALSE),
      Url(<<x_wasm>>, FALSE),
      Url(<<u_data_gz>>, FALSE),
      Url(<<y_br>>, FALSE),
      Url(<<d_gz>>, FALSE),
      Url(<<priv_txt>>, FALSE),
      Url(<<missing_txt>>, FALSE),
      Url(<<missing_gz>>, FALSE),
      Url(<<sub>>, FALSE),
      Url(<<sub>>, TRUE),
      Url(<<etc, passwd>>, FALSE),
      Url(<<sub, DotDot, x_js_gz>>, FALSE),
      Url(<<DotDot, DotDot, etc, passwd>>, FALSE),
      Url(<<DotDot, secret_txt>>, FALSE),
      Url(<<sub, DotDot, DotDot, x_js_gz>>, FALSE) }

Commands == {"GET", "HEAD", "OPTIONS", "POST"}

\* the parts of the names the guess_type harness draws
Parts == {"x", "js", "gz", "br", "wasm", "data", "symbols", "json",
          "unityweb", "html", "JS", "GZ"}

Names == UNION {[1..n -> Parts] : n \in 1..MaxParts}

---------------------------------------------------------------------------
(* The server: main() and TCPServer.serve_forever *)

NoRequest ==
    [conn |-> 0, command |-> "", url |-> Url(<<>>, FALSE), aborted |-> FALSE,
     status |-> 0, headers |-> <<>>, body |-> <<>>, opened |-> {},
     touched |-> {}, raised |-> FALSE, send_header_on_compressed |-> "unset"]

Init ==
    /\ server = "init"
    /\ exit_reason = ""
    /\ DIRECTORY = <<Build>>
    /\ fs \in Hosts
    /\ backlog = <<>>
    /\ cur = 0
    /\ sent = FALSE
    /\ phase = [c \in Clients |-> "idle"]
    /\ last = NoRequest
    /\ failed = FALSE
    /\ gpath = <<>>
    /\ gtype = ""

\* main() up to serve_forever: a missing directory is created with a
\* placeholder index.html; then the listening socket is bound (ok), or
\* binding raises OSError and the process ends (~ok)
main(ok) ==
    /\ server = "init"
    /\ fs' = IF exists([segs |-> DIRECTORY, slash |-> FALSE])
             THEN fs
             ELSE [fs EXCEPT ![DIRECTORY] = Dir,
                             ![Append(DIRECTORY, index_html)] =
                                 File(<<"p", "l", "a", "c", "e">>, TRUE)]
    /\ server' = IF ok THEN "serving" ELSE "stopped"
    /\ exit_reason' = IF ok THEN "" ELSE "startup error"
    /\ UNCHANGED <<DIRECTORY, backlog, cur, sent, phase, last, failed, gpath, gtype>>

\* a client connects: the kernel queues the connection
Connect(c) ==
    /\ server = "serving"
    /\ phase[c] = "idle"
    /\ phase' = [phase EXCEPT ![c] = "queued"]
    /\ backlog' = Append(backlog, c)
    /\ UNCHANGED <<server, exit_reason, DIRECTORY, fs, cur, sent, last, failed,
                   gpath, gtype>>

\* the client of the running handler writes its request (what a client
\* writes before it is accepted waits in its socket until then)
SendRequest ==
    /\ server = "serving"
    /\ cur # 0
    /\ ~sent
    /\ sent' = TRUE
    /\ UNCHANGED <<server, exit_reason, DIRECTORY, fs, backlog, cur, phase, last,
                   failed, gpath, gtype>>

\* serve_forever accepts the next connection and constructs its handler,
\* which runs in the serving thread: TCPServer has no other
Accept ==
    /\ server = "serving"
    /\ cur = 0
    /\ backlog # <<>>
    /\ cur' = Head(backlog)
    /\ backlog' = Tail(backlog)
    /\ phase' = [phase EXCEPT ![Head(backlog)] = "accepted"]
    /\ UNCHANGED <<server, exit_reason, DIRECTORY, fs, sent, last, failed,
                   gpath, gtype>>

\* a variant of the serve loop that lets a handler's exception end it
after_request_reraise(raised) ==
    IF raised
    THEN [server |-> "stopped", exit_reason |-> "exception"]
    ELSE [server |-> "serving", exit_reason |-> ""]

\* serve_forever after a handler returned or raised: socketserver catches
\* the Exception, reports it (handle_error) and closes the connection; the
\* loop goes on
after_request(raised) == [server |-> "serving", exit_reason |-> ""]

\* the handler reads the request its client sent, answers it, and the
\* connection is closed
Handle(command, url, abort) ==
    /\ server = "serving"
    /\ cur # 0
    /\ sent
    /\ \E r \in {handle_one_request(command, url, abort)} :
          /\ last' = [conn |-> cur, command |-> command, url |-> url,
                      aborted |-> r.aborted,
                      status |-> r.status, headers |-> r.headers, body |-> r.body,
                      opened |-> r.opened, touched |-> r.touched,
                      raised |-> r.raised,
                      send_header_on_compressed |-> r.send_header_on_compressed]
          /\ failed' = (failed \/ last.raised)
          /\ server' = after_request(r.raised).server
          /\ exit_reason' = after_request(r.raised).exit_reason
    /\ cur' = 0
    /\ phase' = [phase EXCEPT ![cur] = "idle"]
    /\ sent' = FALSE
    /\ UNCHANGED <<DIRECTORY, fs, backlog, gpath, gtype>>

\* the client closes without having sent a request: the handler reads
\* end of file and returns without an answer
Hangup ==
    /\ server = "serving"
    /\ cur # 0
    /\ ~sent
    /\ cur' = 0
    /\ phase' = [phase EXCEPT ![cur] = "idle"]
    /\ UNCHANGED <<server, exit_reason, DIRECTORY, fs, backlog, sent, last, failed,
                   gpath, gtype>>

\* Ctrl+C: serve_forever raises KeyboardInterrupt, main() calls
\* sys.exit(0), and the process's sockets are closed with it
KeyboardInterrupt ==
    /\ server = "serving"
    /\ server' = "stopped"
    /\ exit_reason' = "KeyboardInterrupt"
    /\ backlog' = <<>>
    /\ cur' = 0
    /\ sent' = FALSE
    /\ phase' = [c \in Clients |-> "idle"]
    /\ UNCHANGED <<DIRECTORY, fs, last, failed, gpath, gtype>>

Next ==
    \/ \E ok \in BOOLEAN : main(ok)
    \/ \E c \in Clients : Connect(c)
    \/ SendRequest
    \/ Accept
    \/ \E command \in Commands, url \in Urls, abort \in BOOLEAN :
           Handle(command, url, abort)
    \/ Hangup
    \/ KeyboardInterrupt

Spec == Init /\ [][Next]_vars

---------------------------------------------------------------------------
(* The guess_type harness: every name of up to MaxParts parts *)

InitGuess ==
    /\ server = "serving"
    /\ exit_reason = ""
    /\ DIRECTORY = <<Build>>
    /\ fs = EmptyHost
    /\ backlog = <<>>
    /\ cur = 0
    /\ sent = FALSE
    /\ phase = [c \in Clients |-> "idle"]
    /\ last = NoRequest
    /\ failed = FALSE
    /\ gpath \in Names
    /\ gtype = "pending"

GuessPath == [segs |-> Append(DIRECTORY, gpath), slash |-> FALSE]

CallGuessType ==
    /\ gtype = "pending"
    /\ gtype' = guess_type(GuessPath)
    /\ UNCHANGED <<server, exit_reason, DIRECTORY, fs, backlog, cur, sent, phase,
                   last, failed, gpath>>

NextGuess == CallGuessType

SpecGuess == InitGuess /\ [][NextGuess]_vars

---------------------------------------------------------------------------
(* Vocabulary of the properties *)

\* a request has been handled
Handled == last.command # ""

\* the path the last request's URL resolves to
LastPath == translate_path(last.url)

\* header k was sent exactly once, with value v
HeaderIs(headers, k, v) ==
    /\ Cardinality({i \in DOMAIN headers : headers[i][1] = k}) = 1
    /\ \E i \in DOMAIN headers : headers[i][1] = k /\ headers[i][2] = v

\* no header named k was sent
NoHeader(headers, k) == \A i \in DOMAIN headers : headers[i][1] # k

FixedHeadersPresent(headers) ==
    /\ HeaderIs(headers, "Access-Control-Allow-Origin", "*")
    /\ HeaderIs(headers, "Access-Control-Allow-Methods", "GET, OPTIONS")
    /\ HeaderIs(headers, "Access-Control-Allow-Headers", "Content-Type")
    /\ HeaderIs(headers, "Cross-Origin-Opener-Policy", "same-origin")
    /\ HeaderIs(headers, "Cross-Origin-Embedder-Policy", "require-corp")

\* p lies in the configured directory's tree
UnderRoot(p) ==
    /\ Len(p) >= Len(DIRECTORY)
    /\ SubSeq(p, 1, Len(DIRECTORY)) = DIRECTORY

RECURSIVE Climbs(_, _)
\* followed name by name from the directory, at depth d below it, the
\* request path steps above the directory
Climbs(segs, d) ==
    IF segs = <<>> THEN FALSE
    ELSE IF Head(segs) = DotDot
    THEN (d = 0) \/ Climbs(Tail(segs), d - 1)
    ELSE IF Head(segs) = Dot THEN Climbs(Tail(segs), d)
    ELSE Climbs(Tail(segs), d + 1)

\* the request is a traversal: its path would resolve outside the directory
Traversal(url) == Climbs(url.segs, 0)

\* the contents of the files outside the directory
OutsideData == {fs[p].data : p \in {q \in DOMAIN fs : ~UnderRoot(q) /\ fs[q].kind = "file"}}

---------------------------------------------------------------------------
(* C1 *)

---------------------------------------------------------------------------
(* C2 *)

---------------------------------------------------------------------------
(* C3 *)

\* the entries of unity_types the lowered path ends with
Matching(path) ==
    {i \in DOMAIN unity_types : endswith(lower(path), unity_types[i][1])}

\* the longest of them
Longest(path) ==
    CHOOSE i \in Matching(path) :
        \A j \in Matching(path) : Len(unity_types[i][1]) >= Len(unity_types[j][1])

\* C3: for every name, guess_type returns the type of the longest entry of
\* the table that the (lowered) path ends with; all entries that match a
\* path agree on the type, so the order of iteration cannot matter; and
\* only if no entry matches is the inherited guess returned.  The compound
\* suffixes of the claim get the types it names.
C3_LongestSuffixWins ==
    gtype # "pending" =>
        /\ Matching(GuessPath) # {} =>
              /\ gtype = unity_types[Longest(GuessPath)][2]
              /\ \A i \in Matching(GuessPath) : unity_types[i][2] = gtype
        /\ Matching(GuessPath) = {} => gtype = super_guess_type(GuessPath)
        /\ gpath \in {<<"x", "symbols", "json", "br">>, <<"x", "symbols", "json">>}
              => gtype = "application/json"
        /\ gpath \in {<<"x", "wasm">>, <<"x", "wasm", "gz">>, <<"x", "wasm", "br">>}
              => gtype = "application/wasm"
        /\ gpath \in {<<"x", "js", "gz">>, <<"x", "js", "br">>}
              => gtype = "application/javascript"
        /\ gpath \in {<<"x", "data">>, <<"x", "data", "gz">>, <<"x", "data", "br">>,
                      <<"x", "unityweb">>}
              => gtype = "application/octet-stream"

\* guess_type has answered for x.symbols.json.br
C3_Witness ==
    /\ gpath = <<"x", "symbols", "json", "br">>
    /\ gtype = "application/json"
    /\ Matching(GuessPath) # {}

---------------------------------------------------------------------------
(* C4 *)

\* the type of the served file came from an entry of the table that ends
\* in part z
TypedBy(path, z) ==
    \E i \in Matching(path) : Last(unity_types[i][1]) = z

\* C4: a GET or HEAD that serves a file sends Content-Encoding gzip if the
\* path ends with .gz, br if it ends with .br, and none otherwise; and a
\* file whose Content-Type came from a .gz (.br) entry of the table also
\* gets Content-Encoding gzip (br).
C4_EncodingFollowsSuffix ==
    (last.command \in {"GET", "HEAD"} /\ last.status = 200 /\ last.opened # {}) =>
        \A p \in last.opened :
            LET path == [segs |-> p, slash |-> FALSE]
            IN /\ endswith(path, <<"gz">>)
                    => HeaderIs(last.headers, "Content-Encoding", "gzip")
               /\ endswith(path, <<"br">>)
                    => HeaderIs(last.headers, "Content-Encoding", "br")
               /\ (~endswith(path, <<"gz">>) /\ ~endswith(path, <<"br">>))
                    => NoHeader(last.headers, "Content-Encoding")
               /\ TypedBy(path, "gz")
                    => HeaderIs(last.headers, "Content-Encoding", "gzip")
               /\ TypedBy(path, "br")
                    => HeaderIs(last.headers, "Content-Encoding", "br")

---------------------------------------------------------------------------
(* C5 *)

---------------------------------------------------------------------------
(* C6 *)

\* C6: an OPTIONS request is answered 200, without a body, with the fixed
\* headers.
C6_OptionsPreflight ==
    last.command = "OPTIONS" =>
        /\ last.status = 200
        /\ last.body = <<>>
        /\ FixedHeadersPresent(last.headers)

---------------------------------------------------------------------------
(* C7 *)

\* the process runs, or was ended by Ctrl+C
StillServing == server = "serving" \/ exit_reason = "KeyboardInterrupt"

---------------------------------------------------------------------------
(* C8 *)

\* the Content-Length announced, if one was
AnnouncedLength(headers) ==
    {headers[i][2] : i \in {j \in DOMAIN headers : headers[j][1] = "Content-Length"}}

\* C8: a GET or HEAD of a path that is missing, or is a file that cannot be
\* opened, or is a directory named like a compressed file, is answered 404;
\* and a 200 that announces a Content-Length is sent only after the file
\* was opened, and a GET whose client stays receives a body of that length.
C8_NotFoundBeforeHeaders ==
    (last.command \in {"GET", "HEAD"}) =>
        /\ (~can_open(LastPath) /\ ~isdir(LastPath)) => last.status = 404
        /\ (isdir(LastPath)
              /\ (endswith(LastPath, <<"gz">>) \/ endswith(LastPath, <<"br">>)))
              => last.status = 404
        /\ (last.status = 200 /\ last.command = "GET" /\ ~last.aborted)
              => AnnouncedLength(last.headers) = {Len(last.body)}
        /\ last.status = 200 => ~last.raised \/ last.aborted

---------------------------------------------------------------------------
(* C9 *)

---------------------------------------------------------------------------
(* C10 *)

\* C10: while one connection's handler is running, whether or not its
\* client has sent its request, a connection that waits can be accepted.
C10_AcceptsWhileHandling ==
    (server = "serving" /\ cur # 0 /\ backlog # <<>>) => ENABLED Accept

====
